---- MODULE Spec2Model ----
(***************************************************************************)
(* Model of astria-sequencer-relayer's data availability client            *)
(* (crates/astria-sequencer-relayer/src/data_availability.rs):             *)
(*   - SignedNamespaceData: to_signed / verify / to_bytes / from_bytes     *)
(*   - assemble_blobs_from_sequencer_block_data                            *)
(*   - CelestiaClient::submit_all_blocks                                   *)
(*   - CelestiaClient::get_sequencer_namespace_data                        *)
(*   - CelestiaClient::get_all_rollup_data_from_sequencer_namespace_data   *)
(*                                                                         *)
(* Bytes are modelled structurally.  A byte string is a record             *)
(* [fmt, doc]: fmt = "json" for a JSON document (doc is the document's     *)
(* object, a record field -> value), fmt = "raw" for anything else.        *)
(* Ed25519 and SHA-256 are modelled as ideal primitives: a hash is the     *)
(* record [sha256 |-> bytes], a signature names its signer and the         *)
(* message it was made over.                                               *)
(***************************************************************************)
EXTENDS Integers, Sequences, FiniteSets, TLC

VARIABLES
    \* ---- SignedNamespaceData under test (to_signed / verify)
    v_pc,        \* "new" | "signed" | "verified"
    v_origin,    \* the envelope as returned by to_signed
    v_env,       \* the envelope verify() is called on
    v_result,    \* result of verify()
    \* ---- submit_all_blocks, one entry per invocation
    s_pc,        \* "idle" | "rpc" | "responded" | "done"
    s_blocks,    \* the `blocks` argument
    s_key,       \* the `signing_key` argument
    s_order,     \* per block, the iteration order of its rollup_txs HashMap
    s_rsp,       \* the transport's answer to the submit RPC
    s_result,    \* value returned by submit_all_blocks
    \* ---- the transport (celestia jsonrpc client + node)
    rpc_log,     \* every state_submit_pay_for_blob request, in arrival order
    fetch_log,   \* every blob_get_all request, in arrival order
    da_store,    \* height -> blobs stored at that height
    \* ---- the reader: get_sequencer_namespace_data, then
    \*      get_all_rollup_data_from_sequencer_namespace_data
    r_pc,        \* "idle" | "seq_fetch" | "have_envs" | "fetch" | "fetched" | "done"
    r_height,    \* the `height` argument
    r_envs,      \* result of get_sequencer_namespace_data
    r_env,       \* the `namespace_data` argument
    r_rsp,       \* the transport's answer to blob_get_all
    r_result     \* value returned by get_all_rollup_data_from_sequencer_namespace_data

vars == <<v_pc, v_origin, v_env, v_result,
          s_pc, s_blocks, s_key, s_order, s_rsp, s_result,
          rpc_log, fetch_log, da_store,
          r_pc, r_height, r_envs, r_env, r_rsp, r_result>>

v_vars == <<v_pc, v_origin, v_env, v_result>>
s_vars == <<s_pc, s_blocks, s_key, s_order, s_rsp, s_result>>
t_vars == <<rpc_log, fetch_log, da_store>>
r_vars == <<r_pc, r_height, r_envs, r_env, r_rsp, r_result>>

-----------------------------------------------------------------------------
(* Bounds *)

NumNamespaces == 2      \* rollup namespaces 1..NumNamespaces
NumKeys == 2            \* signing keys 1..NumKeys
MaxBlocks == 2          \* blocks per submit_all_blocks batch
MaxBlobs == 2           \* blobs in an arbitrary blob_get_all response
MaxHeight == 2          \* heights the transport reports

(* Program constants *)

DEFAULT_NAMESPACE == 0
DEFAULT_PFD_GAS_LIMIT == 1000000
DEFAULT_PFD_FEE == 100000

RollupNamespaces == 1..NumNamespaces
SigningKeys == 1..NumKeys
Invocations == {1, 2}    \* concurrent submit_all_blocks invocations on clones of the client
Heights == 1..MaxHeight

-----------------------------------------------------------------------------
(* Sequence helpers *)

Range(s) == {s[i] : i \in 1..Len(s)}

RECURSIVE Concat(_)
Concat(ss) == IF ss = <<>> THEN <<>> ELSE Head(ss) \o Concat(Tail(ss))

SeqsUpTo(S, n) == UNION {[1..m -> S] : m \in 0..n}

Perms(S) == {p \in [1..Cardinality(S) -> S] : Range(p) = S}

-----------------------------------------------------------------------------
(* Results *)

Ok == [ok |-> TRUE, err |-> "none"]
Err(e) == [ok |-> FALSE, err |-> e]

-----------------------------------------------------------------------------
(* Cryptographic primitives (sha2, ed25519_consensus), idealised:          *)
(* key bytes are [wf, point], wf = right length and a decodable point;     *)
(* signature bytes are [wf, signer, msg], wf = right length.               *)

Raw(n) == [fmt |-> "raw", doc |-> [garbage |-> n]]

Sha256(bytes) == [sha256 |-> bytes]

\* signing_key.verification_key().to_bytes().to_vec()
verification_key(k) == [wf |-> TRUE, point |-> k]

\* signing_key.sign(&hash).to_bytes().to_vec()
sign(k, msg) == [wf |-> TRUE, signer |-> k, msg |-> msg]

\* VerificationKey::try_from(&*public_key)
VerificationKey_try_from(pk) == pk.wf

\* Signature::try_from(&*signature)
Signature_try_from(sig) == sig.wf

\* verification_key.verify(&signature, &hash)
VerificationKey_verify(pk, sig, msg) ==
    /\ sig.signer = pk.point
    /\ sig.msg = msg

MalformedKey == [wf |-> FALSE, point |-> 0]
MalformedSignature == [wf |-> FALSE, signer |-> 0, msg |-> Sha256(Raw(0))]

-----------------------------------------------------------------------------
(* Serde: JSON documents.  Byte fields carry                               *)
(* #[serde(with = "crate::serde::Base64Standard")].                        *)

Base64Encode(b) == [b64 |-> b]
Base64Valid(v) == DOMAIN v = {"b64"}
Base64Decode(v) == v.b64

\* tendermint Header / Option<Commit>, opaque: a header is [serializable, id]
\* (serde_json::to_vec may return Err), a last_commit is [some, id].
Header(n) == [serializable |-> TRUE, id |-> n]
UnserializableHeader == [serializable |-> FALSE, id |-> 1]
NoCommit == [some |-> FALSE, id |-> 1]
SomeCommit(n) == [some |-> TRUE, id |-> n]

IsRollupData(d) == DOMAIN d = {"block_hash", "rollup_txs"}

\* Serialize for RollupNamespaceData / SequencerNamespaceData
PayloadSerializable(d) ==
    IF IsRollupData(d) THEN TRUE ELSE d.header.serializable

PayloadJson(d) ==
    IF IsRollupData(d)
    THEN [block_hash |-> Base64Encode(d.block_hash), rollup_txs |-> d.rollup_txs]
    ELSE [block_hash |-> Base64Encode(d.block_hash),
          header |-> d.header,
          last_commit |-> d.last_commit,
          rollup_namespaces |-> d.rollup_namespaces]

\* NamespaceData::to_bytes
NamespaceData_to_bytes(d) ==
    IF PayloadSerializable(d)
    THEN [ok |-> TRUE, bytes |-> [fmt |-> "json", doc |-> PayloadJson(d)]]
    ELSE [ok |-> FALSE, bytes |-> Raw(0)]

\* NamespaceData::hash_json_serialized_bytes
hash_json_serialized_bytes(d) ==
    LET b == NamespaceData_to_bytes(d)
    IN  [ok |-> b.ok, hash |-> Sha256(b.bytes)]

\* SignedNamespaceData::new
SignedNamespaceData_new(data, public_key, signature) ==
    [data |-> data, public_key |-> public_key, signature |-> signature]

\* to_signed signing the serialized payload itself instead of its hash
to_signed_unhashed(d, signing_key) ==
    LET b == NamespaceData_to_bytes(d)
    IN  IF ~b.ok
        THEN [ok |-> FALSE, val |-> SignedNamespaceData_new(d, MalformedKey, MalformedSignature)]
        ELSE [ok |-> TRUE,
              val |-> SignedNamespaceData_new(d, verification_key(signing_key),
                                              sign(signing_key, b.bytes))]

\* NamespaceData::to_signed
to_signed(d, signing_key) ==
    LET h == hash_json_serialized_bytes(d)
    IN  IF ~h.ok
        THEN [ok |-> FALSE, val |-> SignedNamespaceData_new(d, MalformedKey, MalformedSignature)]
        ELSE [ok |-> TRUE,
              val |-> SignedNamespaceData_new(d, verification_key(signing_key),
                                              sign(signing_key, h.hash))]

\* SignedNamespaceData::to_bytes
SignedNamespaceData_to_bytes(e) ==
    IF PayloadSerializable(e.data)
    THEN [ok |-> TRUE,
          bytes |-> [fmt |-> "json",
                     doc |-> [data |-> PayloadJson(e.data),
                              public_key |-> Base64Encode(e.public_key),
                              signature |-> Base64Encode(e.signature)]]]
    ELSE [ok |-> FALSE, bytes |-> Raw(0)]

\* Deserialize for RollupNamespaceData: unknown fields are ignored, the
\* struct's fields are required
RollupJsonValid(j) ==
    /\ {"block_hash", "rollup_txs"} \subseteq DOMAIN j
    /\ Base64Valid(j.block_hash)

RollupFromJson(j) ==
    [block_hash |-> Base64Decode(j.block_hash), rollup_txs |-> j.rollup_txs]

\* Deserialize for SequencerNamespaceData
SequencerJsonValid(j) ==
    /\ {"block_hash", "header", "last_commit", "rollup_namespaces"} \subseteq DOMAIN j
    /\ Base64Valid(j.block_hash)

SequencerFromJson(j) ==
    [block_hash |-> Base64Decode(j.block_hash),
     header |-> j.header,
     last_commit |-> j.last_commit,
     rollup_namespaces |-> j.rollup_namespaces]

EnvelopeJsonValid(bytes) ==
    /\ bytes.fmt = "json"
    /\ {"data", "public_key", "signature"} \subseteq DOMAIN bytes.doc
    /\ Base64Valid(bytes.doc.public_key)
    /\ Base64Valid(bytes.doc.signature)

\* SignedNamespaceData::<RollupNamespaceData>::from_bytes
Rollup_from_bytes_ok(bytes) ==
    EnvelopeJsonValid(bytes) /\ RollupJsonValid(bytes.doc.data)

Rollup_from_bytes(bytes) ==
    SignedNamespaceData_new(RollupFromJson(bytes.doc.data),
                            Base64Decode(bytes.doc.public_key),
                            Base64Decode(bytes.doc.signature))

\* SignedNamespaceData::<SequencerNamespaceData>::from_bytes
Sequencer_from_bytes_ok(bytes) ==
    EnvelopeJsonValid(bytes) /\ SequencerJsonValid(bytes.doc.data)

Sequencer_from_bytes(bytes) ==
    SignedNamespaceData_new(SequencerFromJson(bytes.doc.data),
                            Base64Decode(bytes.doc.public_key),
                            Base64Decode(bytes.doc.signature))

\* verify with the result of the signature check discarded
verify_unchecked(e) ==
    IF ~VerificationKey_try_from(e.public_key)
    THEN Err("failed deserializing public key from bytes")
    ELSE IF ~Signature_try_from(e.signature)
    THEN Err("failed deserializing signature from bytes")
    ELSE IF ~hash_json_serialized_bytes(e.data).ok
    THEN Err("failed converting data to bytes")
    ELSE Ok

\* verify with the signature bytes looked at before the key bytes
verify_signature_first(e) ==
    IF ~Signature_try_from(e.signature)
    THEN Err("failed deserializing signature from bytes")
    ELSE IF ~VerificationKey_try_from(e.public_key)
    THEN Err("failed deserializing public key from bytes")
    ELSE LET h == hash_json_serialized_bytes(e.data)
         IN  IF ~h.ok
             THEN Err("failed converting data to bytes")
             ELSE IF ~VerificationKey_verify(e.public_key, e.signature, h.hash)
             THEN Err("failed verifying signature")
             ELSE Ok

\* SignedNamespaceData::verify
verify(e) ==
    IF ~VerificationKey_try_from(e.public_key)
    THEN Err("failed deserializing public key from bytes")
    ELSE IF ~Signature_try_from(e.signature)
    THEN Err("failed deserializing signature from bytes")
    ELSE LET h == hash_json_serialized_bytes(e.data)
         IN  IF ~h.ok
             THEN Err("failed converting data to bytes")
             ELSE IF ~VerificationKey_verify(e.public_key, e.signature, h.hash)
             THEN Err("failed verifying signature")
             ELSE Ok

-----------------------------------------------------------------------------
(* assemble_blobs_from_sequencer_block_data                                *)
(* A SequencerBlockData is [block_hash, header, last_commit, rollup_txs],  *)
(* rollup_txs a function namespace -> sequence of transactions.  `order`   *)
(* is the order in which the HashMap rollup_txs is iterated.               *)

Blob(namespace_id, data) == [namespace_id |-> namespace_id, data |-> data]

\* the loop `for (namespace, txs) in block_data.rollup_txs`, with `?`
RECURSIVE RollupBlobs(_, _, _)
RollupBlobs(block_data, signing_key, order) ==
    IF order = <<>>
    THEN [ok |-> TRUE, blobs |-> <<>>, namespaces |-> <<>>]
    ELSE LET namespace == Head(order)
             rollup_namespace_data ==
                 [block_hash |-> block_data.block_hash,
                  rollup_txs |-> block_data.rollup_txs[namespace]]
             signed == to_signed(rollup_namespace_data, signing_key)
             data == SignedNamespaceData_to_bytes(signed.val)
             rest == RollupBlobs(block_data, signing_key, Tail(order))
         IN  IF ~signed.ok \/ ~data.ok
             THEN [ok |-> FALSE, blobs |-> <<>>, namespaces |-> <<>>]
             ELSE [ok |-> rest.ok,
                   blobs |-> <<Blob(namespace, data.bytes)>> \o rest.blobs,
                   namespaces |-> <<namespace>> \o rest.namespaces]

\* assembly that hands back the rollup blobs built so far when the
\* sequencer blob cannot be built
assemble_blobs_leaky(block_data, signing_key, order) ==
    LET r == RollupBlobs(block_data, signing_key, order)
        signed == to_signed([block_hash |-> block_data.block_hash,
                             header |-> block_data.header,
                             last_commit |-> block_data.last_commit,
                             rollup_namespaces |-> r.namespaces], signing_key)
    IN  [ok |-> TRUE,
         blobs |-> IF signed.ok
                   THEN r.blobs \o <<Blob(DEFAULT_NAMESPACE,
                                          SignedNamespaceData_to_bytes(signed.val).bytes)>>
                   ELSE r.blobs]

\* assembly whose sequencer blob lists the namespaces in the reverse of the
\* order the rollup blobs were pushed in
assemble_blobs_namespaces_reversed(block_data, signing_key, order) ==
    LET r == RollupBlobs(block_data, signing_key, order)
        n == Len(r.namespaces)
        sequencer_namespace_data ==
            [block_hash |-> block_data.block_hash,
             header |-> block_data.header,
             last_commit |-> block_data.last_commit,
             rollup_namespaces |-> [m \in 1..n |-> r.namespaces[n + 1 - m]]]
        signed == to_signed(sequencer_namespace_data, signing_key)
        data == SignedNamespaceData_to_bytes(signed.val)
    IN  IF ~r.ok \/ ~signed.ok \/ ~data.ok
        THEN [ok |-> FALSE, blobs |-> <<>>]
        ELSE [ok |-> TRUE,
              blobs |-> r.blobs \o <<Blob(DEFAULT_NAMESPACE, data.bytes)>>]

\* On Err the local `blobs` vector is dropped with the stack frame.

assemble_blobs_from_sequencer_block_data(block_data, signing_key, order) ==
    LET r == RollupBlobs(block_data, signing_key, order)
        sequencer_namespace_data ==
            [block_hash |-> block_data.block_hash,
             header |-> block_data.header,
             last_commit |-> block_data.last_commit,
             rollup_namespaces |-> r.namespaces]
        signed == to_signed(sequencer_namespace_data, signing_key)
        data == SignedNamespaceData_to_bytes(signed.val)
    IN  IF ~r.ok \/ ~signed.ok \/ ~data.ok
        THEN [ok |-> FALSE, blobs |-> <<>>]
        ELSE [ok |-> TRUE,
              blobs |-> r.blobs \o <<Blob(DEFAULT_NAMESPACE, data.bytes)>>]

\* the loop of submit_all_blocks with each block's blobs put in front
RECURSIVE AllBlobsPrepend(_, _, _)
AllBlobsPrepend(blocks, signing_key, orders) ==
    IF blocks = <<>>
    THEN <<>>
    ELSE LET a == assemble_blobs_from_sequencer_block_data(
                      Head(blocks), signing_key, Head(orders))
         IN  AllBlobsPrepend(Tail(blocks), signing_key, Tail(orders))
             \o (IF a.ok THEN a.blobs ELSE <<>>)

\* the loop `for block in blocks` of submit_all_blocks
RECURSIVE AllBlobs(_, _, _)
AllBlobs(blocks, signing_key, orders) ==
    IF blocks = <<>>
    THEN <<>>
    ELSE LET a == assemble_blobs_from_sequencer_block_data(
                      Head(blocks), signing_key, Head(orders))
         IN  (IF a.ok THEN a.blobs ELSE <<>>)
             \o AllBlobs(Tail(blocks), signing_key, Tail(orders))

\* state::SubmitPayForBlobRequest built by submit_namespaced_data
SubmitPayForBlobRequest(inv, blobs) ==
    [inv |-> inv, fee |-> DEFAULT_PFD_FEE, gas_limit |-> DEFAULT_PFD_GAS_LIMIT,
     blobs |-> blobs]

-----------------------------------------------------------------------------
(* Inputs *)

Tx(i) == i

\* rollup_txs mappings: a function from a set of namespaces
TxsOf(ns, variant) == IF variant = 1 THEN <<Tx(ns), Tx(ns + 1)>> ELSE <<Tx(ns + 1), Tx(ns)>>

BlockPool ==
    {  \* every rollup namespace written, two transactions each
       [block_hash |-> 1, header |-> Header(1), last_commit |-> SomeCommit(1),
        rollup_txs |-> [ns \in {1, 2} |-> TxsOf(ns, 1)]],
       \* one namespace, shared with the block above
       [block_hash |-> 2, header |-> Header(2), last_commit |-> NoCommit,
        rollup_txs |-> [ns \in {1} |-> TxsOf(ns, 2)]],
       \* a header that fails to serialize
       [block_hash |-> 3, header |-> UnserializableHeader, last_commit |-> NoCommit,
        rollup_txs |-> [ns \in {2} |-> TxsOf(ns, 1)]],
       \* no rollup transactions at all
       [block_hash |-> 4, header |-> Header(1), last_commit |-> SomeCommit(2),
        rollup_txs |-> [ns \in {} |-> <<>>]],
       \* rollup transactions keyed by the base namespace itself
       [block_hash |-> 5, header |-> Header(2), last_commit |-> NoCommit,
        rollup_txs |-> [ns \in {DEFAULT_NAMESPACE} |-> TxsOf(ns, 1)]] }

Batches == SeqsUpTo(BlockPool, MaxBlocks)

\* the iteration orders of the blocks' HashMaps
OrdersFor(blocks) ==
    {o \in [1..Len(blocks) -> UNION {Perms(DOMAIN b.rollup_txs) : b \in BlockPool}] :
        \A i \in 1..Len(blocks) : o[i] \in Perms(DOMAIN blocks[i].rollup_txs)}

SequencerKey == CHOOSE k \in SigningKeys : \A j \in SigningKeys : k <= j

-----------------------------------------------------------------------------
(* Initial state *)

NoEnvelope == SignedNamespaceData_new([block_hash |-> 0, rollup_txs |-> <<>>],
                                      MalformedKey, MalformedSignature)
NoResult == [kind |-> "pending"]

VInit ==
    /\ v_pc = "new"
    /\ v_origin = NoEnvelope
    /\ v_env = NoEnvelope
    /\ v_result = Ok

SInit ==
    /\ s_pc = [i \in Invocations |-> "idle"]
    /\ s_blocks = [i \in Invocations |-> <<>>]
    /\ s_key = [i \in Invocations |-> SequencerKey]
    /\ s_order = [i \in Invocations |-> <<>>]
    /\ s_rsp = [i \in Invocations |-> NoResult]
    /\ s_result = [i \in Invocations |-> NoResult]

TInit ==
    /\ rpc_log = <<>>
    /\ fetch_log = <<>>
    /\ da_store = [h \in Heights |-> <<>>]

RInit ==
    /\ r_pc = "idle"
    /\ r_height = 1
    /\ r_envs = <<>>
    /\ r_env = NoEnvelope
    /\ r_rsp = NoResult
    /\ r_result = NoResult

Init == VInit /\ SInit /\ TInit /\ RInit

-----------------------------------------------------------------------------
(* CelestiaClient::submit_all_blocks *)

\* up to the .await of state_submit_pay_for_blob: every block is assembled
\* and the one request is handed to the transport
SubmitAllBlocksCall(i, blocks, signing_key, orders) ==
    /\ s_pc[i] = "idle"
    /\ s_pc' = [s_pc EXCEPT ![i] = "rpc"]
    /\ s_blocks' = [s_blocks EXCEPT ![i] = blocks]
    /\ s_key' = [s_key EXCEPT ![i] = signing_key]
    /\ s_order' = [s_order EXCEPT ![i] = orders]
    /\ rpc_log' = Append(rpc_log,
                         SubmitPayForBlobRequest(i, AllBlobs(blocks, signing_key, orders)))
    /\ UNCHANGED <<s_rsp, s_result, fetch_log, da_store, v_vars, r_vars>>

PendingRequest(i) ==
    CHOOSE n \in 1..Len(rpc_log) :
        /\ rpc_log[n].inv = i
        /\ \A m \in 1..Len(rpc_log) : rpc_log[m].inv = i => m <= n

\* the heights the node can include a new submission at: no earlier than
\* anything already stored
OpenHeights == {h \in Heights : \A g \in Heights : g > h => da_store[g] = <<>>}

\* the transport includes the blobs and reports the height
TransportSubmitOk(i, h) ==
    /\ s_pc[i] = "rpc"
    /\ h \in OpenHeights
    /\ da_store' = [da_store EXCEPT ![h] = @ \o rpc_log[PendingRequest(i)].blobs]
    /\ s_rsp' = [s_rsp EXCEPT ![i] = [kind |-> "ok", height |-> h]]
    /\ s_pc' = [s_pc EXCEPT ![i] = "responded"]
    /\ UNCHANGED <<s_blocks, s_key, s_order, s_result, rpc_log, fetch_log, v_vars, r_vars>>

\* the RPC fails
TransportSubmitErr(i) ==
    /\ s_pc[i] = "rpc"
    /\ s_rsp' = [s_rsp EXCEPT ![i] = [kind |-> "err"]]
    /\ s_pc' = [s_pc EXCEPT ![i] = "responded"]
    /\ UNCHANGED <<s_blocks, s_key, s_order, s_result, t_vars, v_vars, r_vars>>

\* the response's height off by one
SubmitAllBlocksResultShifted(rsp) ==
    IF rsp.kind = "ok"
    THEN [kind |-> "ok", height |-> rsp.height + 1]
    ELSE [kind |-> "err"]

\* after the .await: `?` on the response, then Ok(SubmitBlockResponse { height })
SubmitAllBlocksResult(rsp) ==
    IF rsp.kind = "ok"
    THEN [kind |-> "ok", height |-> rsp.height]
    ELSE [kind |-> "err"]

SubmitAllBlocksReturn(i) ==
    /\ s_pc[i] = "responded"
    /\ s_result' = [s_result EXCEPT ![i] = SubmitAllBlocksResult(s_rsp[i])]
    /\ s_pc' = [s_pc EXCEPT ![i] = "done"]
    /\ UNCHANGED <<s_blocks, s_key, s_order, s_rsp, t_vars, v_vars, r_vars>>

-----------------------------------------------------------------------------
(* The transport's blob_get_all *)

GetAllRequest(height, namespace_ids) ==
    [height |-> height, namespace_ids |-> namespace_ids]

\* astria_celestia_jsonrpc_client::Error: its kind() and, for
\* ErrorKind::Rpc(JsonRpseeError::Call(inner)), inner.message()
TransportErrors ==
    [variant : {"rpc_call", "rpc_other", "other"}, blob_not_found_in_message : BOOLEAN]

IsNotFound(e) == e.variant = "rpc_call" /\ e.blob_not_found_in_message

LastRequest == fetch_log[Len(fetch_log)]

\* what the node stores at the requested height under the requested
\* namespaces, in stored order
StoredBlobs(req) ==
    SelectSeq(da_store[req.height], LAMBDA b : b.namespace_id \in Range(req.namespace_ids))

-----------------------------------------------------------------------------
(* CelestiaClient::get_sequencer_namespace_data *)

\* parsing that keeps only the envelopes that pass verify()
RECURSIVE ParseVerifiedSequencerBlobs(_)
ParseVerifiedSequencerBlobs(blobs) ==
    IF blobs = <<>>
    THEN <<>>
    ELSE (IF /\ Sequencer_from_bytes_ok(Head(blobs).data)
             /\ verify(Sequencer_from_bytes(Head(blobs).data)).ok
          THEN <<Sequencer_from_bytes(Head(blobs).data)>>
          ELSE <<>>) \o ParseVerifiedSequencerBlobs(Tail(blobs))

RECURSIVE ParseSequencerBlobs(_)
ParseSequencerBlobs(blobs) ==
    IF blobs = <<>>
    THEN <<>>
    ELSE (IF Sequencer_from_bytes_ok(Head(blobs).data)
          THEN <<Sequencer_from_bytes(Head(blobs).data)>>
          ELSE <<>>) \o ParseSequencerBlobs(Tail(blobs))

GetSequencerNamespaceDataCall(height) ==
    /\ r_pc = "idle"
    /\ r_pc' = "seq_fetch"
    /\ r_height' = height
    /\ fetch_log' = Append(fetch_log, GetAllRequest(height, <<DEFAULT_NAMESPACE>>))
    /\ UNCHANGED <<r_envs, r_env, r_rsp, r_result, rpc_log, da_store, v_vars, s_vars>>

GetSequencerNamespaceDataResult(rsp) ==
    IF rsp.kind = "ok"
    THEN [kind |-> "ok", envelopes |-> ParseSequencerBlobs(rsp.blobs)]
    ELSE [kind |-> "err", msg |-> "failed getting namespaced data"]

GetSequencerNamespaceDataReturn ==
    /\ r_pc = "seq_fetched"
    /\ LET res == GetSequencerNamespaceDataResult(r_rsp)
       IN  /\ r_result' = res
           /\ r_envs' = IF res.kind = "ok" THEN res.envelopes ELSE <<>>
           /\ r_pc' = IF res.kind = "ok" THEN "have_envs" ELSE "done"
    /\ UNCHANGED <<r_height, r_env, r_rsp, t_vars, v_vars, s_vars>>

-----------------------------------------------------------------------------
(* CelestiaClient::get_all_rollup_data_from_sequencer_namespace_data *)

EmptyMap == [k \in {} |-> NoEnvelope]
Insert(map, k, v) == [x \in DOMAIN map \cup {k} |-> IF x = k THEN v ELSE map[x]]
\* HashMap::retain, `kept` the keys whose entries the closure keeps
Retain(map, kept) == [k \in DOMAIN map \cap kept |-> map[k]]

\* collection that stops at the first blob that does not deserialize
RECURSIVE CollectUntilFailure(_)
CollectUntilFailure(blobs) ==
    IF blobs = <<>>
    THEN EmptyMap
    ELSE LET n == Len(blobs)
             front == CollectUntilFailure(SubSeq(blobs, 1, n - 1))
             failed_before == \E m \in 1..n : ~Rollup_from_bytes_ok(blobs[m].data)
         IN  IF failed_before
             THEN EmptyMap
             ELSE Insert(front, blobs[n].namespace_id, Rollup_from_bytes(blobs[n].data))

\* rsp.blobs.iter().filter_map(from_bytes).collect::<HashMap<_, _>>():
\* an entry collected later replaces an earlier one with the same key
RECURSIVE CollectRollupDatas(_)
CollectRollupDatas(blobs) ==
    IF blobs = <<>>
    THEN EmptyMap
    ELSE LET n == Len(blobs)
             front == CollectRollupDatas(SubSeq(blobs, 1, n - 1))
         IN  IF Rollup_from_bytes_ok(blobs[n].data)
             THEN Insert(front, blobs[n].namespace_id, Rollup_from_bytes(blobs[n].data))
             ELSE front

\* verification against the key embedded in the rollup envelope
RollupDataVerifiesEmbedded(verification_key_bytes, rollup_data) ==
    LET h == hash_json_serialized_bytes(rollup_data.data)
    IN  /\ h.ok
        /\ Signature_try_from(rollup_data.signature)
        /\ VerificationKey_try_from(rollup_data.public_key)
        /\ VerificationKey_verify(rollup_data.public_key, rollup_data.signature, h.hash)

\* the closure of the second retain: hash, signature bytes, verification
RollupDataVerifies(verification_key_bytes, rollup_data) ==
    LET h == hash_json_serialized_bytes(rollup_data.data)
    IN  /\ h.ok
        /\ Signature_try_from(rollup_data.signature)
        /\ VerificationKey_verify(verification_key_bytes, rollup_data.signature, h.hash)

\* reconstruction without the block hash filter
RollupTxsAnyHash(namespace_data, blobs) ==
    LET collected == CollectRollupDatas(blobs)
        verified ==
            Retain(collected,
                   {ns \in DOMAIN collected :
                       RollupDataVerifies(namespace_data.public_key, collected[ns])})
    IN  [ns \in DOMAIN verified |-> verified[ns].data.rollup_txs]

\* reconstruction that joins the transaction lists of all the blobs of a
\* namespace that pass the filters
RollupTxsMerged(namespace_data, blobs) ==
    LET passes(b) ==
            /\ Rollup_from_bytes_ok(b.data)
            /\ Rollup_from_bytes(b.data).data.block_hash = namespace_data.data.block_hash
            /\ RollupDataVerifies(namespace_data.public_key, Rollup_from_bytes(b.data))
        passing == SelectSeq(blobs, passes)
    IN  [ns \in {passing[n].namespace_id : n \in 1..Len(passing)} |->
            LET mine == SelectSeq(passing, LAMBDA b : b.namespace_id = ns)
            IN  Concat([n \in 1..Len(mine) |->
                           Rollup_from_bytes(mine[n].data).data.rollup_txs])]

\* from the successful response to the returned block
RollupTxs(namespace_data, blobs) ==
    LET collected == CollectRollupDatas(blobs)
        hash_matched ==
            Retain(collected,
                   {ns \in DOMAIN collected :
                       namespace_data.data.block_hash = collected[ns].data.block_hash})
        verified ==
            Retain(hash_matched,
                   {ns \in DOMAIN hash_matched :
                       RollupDataVerifies(namespace_data.public_key, hash_matched[ns])})
    IN  [ns \in DOMAIN verified |-> verified[ns].data.rollup_txs]

SequencerBlockData(block_hash, header, last_commit, rollup_txs) ==
    [block_hash |-> block_hash, header |-> header, last_commit |-> last_commit,
     rollup_txs |-> rollup_txs]

\* every failed fetch taken for absence
ReconstructResultAllAbsent(namespace_data, rsp) ==
    IF rsp.kind = "err"
    THEN [kind |-> "ok_none"]
    ELSE [kind |-> "ok_some",
          block |-> SequencerBlockData(namespace_data.data.block_hash,
                                       namespace_data.data.header,
                                       namespace_data.data.last_commit,
                                       RollupTxs(namespace_data, rsp.blobs))]

\* a block without rollup transactions reported as absent
ReconstructResultNoneWhenEmpty(namespace_data, rsp) ==
    IF rsp.kind = "err"
    THEN IF IsNotFound(rsp.error)
         THEN [kind |-> "ok_none"]
         ELSE [kind |-> "err", msg |-> "failed getting namespaced data"]
    ELSE IF DOMAIN RollupTxs(namespace_data, rsp.blobs) = {}
    THEN [kind |-> "ok_none"]
    ELSE [kind |-> "ok_some",
          block |-> SequencerBlockData(namespace_data.data.block_hash,
                                       namespace_data.data.header,
                                       namespace_data.data.last_commit,
                                       RollupTxs(namespace_data, rsp.blobs))]

\* the returned block's hash read from the first retrieved blob that
\* deserializes
ReconstructResultBlobHash(namespace_data, rsp) ==
    IF rsp.kind = "err"
    THEN IF IsNotFound(rsp.error)
         THEN [kind |-> "ok_none"]
         ELSE [kind |-> "err", msg |-> "failed getting namespaced data"]
    ELSE LET parsed == SelectSeq(rsp.blobs, LAMBDA b : Rollup_from_bytes_ok(b.data))
         IN  [kind |-> "ok_some",
              block |-> SequencerBlockData(
                            IF parsed = <<>>
                            THEN namespace_data.data.block_hash
                            ELSE Rollup_from_bytes(parsed[1].data).data.block_hash,
                            namespace_data.data.header,
                            namespace_data.data.last_commit,
                            RollupTxs(namespace_data, rsp.blobs))]

\* reconstruction that first runs verify() on the sequencer envelope
ReconstructResultVerified(namespace_data, rsp) ==
    IF ~verify(namespace_data).ok
    THEN [kind |-> "err", msg |-> "failed verifying sequencer namespace data"]
    ELSE IF rsp.kind = "err"
    THEN IF IsNotFound(rsp.error)
         THEN [kind |-> "ok_none"]
         ELSE [kind |-> "err", msg |-> "failed getting namespaced data"]
    ELSE [kind |-> "ok_some",
          block |-> SequencerBlockData(namespace_data.data.block_hash,
                                       namespace_data.data.header,
                                       namespace_data.data.last_commit,
                                       RollupTxs(namespace_data, rsp.blobs))]

\* the match on blob_get_all's result and everything after it
ReconstructResult(namespace_data, rsp) ==
    IF rsp.kind = "err"
    THEN IF IsNotFound(rsp.error)
         THEN [kind |-> "ok_none"]
         ELSE [kind |-> "err", msg |-> "failed getting namespaced data"]
    ELSE [kind |-> "ok_some",
          block |-> SequencerBlockData(namespace_data.data.block_hash,
                                       namespace_data.data.header,
                                       namespace_data.data.last_commit,
                                       RollupTxs(namespace_data, rsp.blobs))]

\* the request handed to the transport before the key is looked at
ReconstructCallFetchFirst(height, namespace_data) ==
    /\ r_height' = height
    /\ r_env' = namespace_data
    /\ fetch_log' = Append(fetch_log,
                           GetAllRequest(height, namespace_data.data.rollup_namespaces))
    /\ IF VerificationKey_try_from(namespace_data.public_key)
       THEN /\ r_pc' = "fetch"
            /\ r_result' = NoResult
       ELSE /\ r_pc' = "done"
            /\ r_result' = [kind |-> "err",
                            msg |-> "failed constructing verification key from stored bytes"]
    /\ UNCHANGED <<r_envs, r_rsp, rpc_log, da_store, v_vars, s_vars>>

\* up to the .await of blob_get_all: the key check, then the request
ReconstructCall(height, namespace_data) ==
    /\ r_height' = height
    /\ r_env' = namespace_data
    /\ IF VerificationKey_try_from(namespace_data.public_key)
       THEN /\ fetch_log' = Append(fetch_log,
                                   GetAllRequest(height, namespace_data.data.rollup_namespaces))
            /\ r_pc' = "fetch"
            /\ r_result' = NoResult
       ELSE /\ fetch_log' = fetch_log
            /\ r_pc' = "done"
            /\ r_result' = [kind |-> "err",
                            msg |-> "failed constructing verification key from stored bytes"]
    /\ UNCHANGED <<r_envs, r_rsp, rpc_log, da_store, v_vars, s_vars>>

ReconstructReturn ==
    /\ r_pc = "fetched"
    /\ r_result' = ReconstructResult(r_env, r_rsp)
    /\ r_pc' = "done"
    /\ UNCHANGED <<r_height, r_envs, r_env, r_rsp, t_vars, v_vars, s_vars>>

\* the transport answers the pending blob_get_all
TransportGetAllOk(blobs) ==
    /\ r_pc \in {"seq_fetch", "fetch"}
    /\ r_rsp' = [kind |-> "ok", blobs |-> blobs]
    /\ r_pc' = IF r_pc = "seq_fetch" THEN "seq_fetched" ELSE "fetched"
    /\ UNCHANGED <<r_height, r_envs, r_env, r_result, t_vars, v_vars, s_vars>>

TransportGetAllErr(e) ==
    /\ r_pc \in {"seq_fetch", "fetch"}
    /\ r_rsp' = [kind |-> "err", error |-> e]
    /\ r_pc' = IF r_pc = "seq_fetch" THEN "seq_fetched" ELSE "fetched"
    /\ UNCHANGED <<r_height, r_envs, r_env, r_result, t_vars, v_vars, s_vars>>

-----------------------------------------------------------------------------
(* SignedNamespaceData: to_signed, then verify on the stored envelope *)

RollupData(block_hash, rollup_txs) ==
    [block_hash |-> block_hash, rollup_txs |-> rollup_txs]

SequencerData(block_hash, header, rollup_namespaces) ==
    [block_hash |-> block_hash, header |-> header, last_commit |-> NoCommit,
     rollup_namespaces |-> rollup_namespaces]

AllNamespaces == [i \in 1..NumNamespaces |-> i]

Payloads ==
    {RollupData(h, TxsOf(1, v)) : h \in {1, 2}, v \in {1, 2}}
        \cup {SequencerData(h, Header(h), AllNamespaces) : h \in {1, 2}}
        \cup {SequencerData(1, UnserializableHeader, AllNamespaces)}

KeyBytes == {verification_key(k) : k \in SigningKeys} \cup {MalformedKey}

SignatureBytes ==
    {sign(k, hash_json_serialized_bytes(p).hash) :
        k \in SigningKeys, p \in {q \in Payloads : PayloadSerializable(q)}}
        \cup {MalformedSignature}

ToSigned(p, k) ==
    /\ v_pc = "new"
    /\ LET r == to_signed(p, k)
       IN  IF r.ok
           THEN v_pc' = "signed" /\ v_origin' = r.val /\ v_env' = r.val
           ELSE v_pc' = "failed" /\ UNCHANGED <<v_origin, v_env>>
    /\ UNCHANGED <<v_result, s_vars, t_vars, r_vars>>

\* the stored bytes are changed before they are read back
TamperSignature(sig) ==
    /\ v_pc = "signed"
    /\ sig # v_env.signature
    /\ v_env' = [v_env EXCEPT !.signature = sig]
    /\ UNCHANGED <<v_pc, v_origin, v_result, s_vars, t_vars, r_vars>>

TamperPublicKey(pk) ==
    /\ v_pc = "signed"
    /\ pk # v_env.public_key
    /\ v_env' = [v_env EXCEPT !.public_key = pk]
    /\ UNCHANGED <<v_pc, v_origin, v_result, s_vars, t_vars, r_vars>>

TamperPayload(p) ==
    /\ v_pc = "signed"
    /\ p # v_env.data
    /\ v_env' = [v_env EXCEPT !.data = p]
    /\ UNCHANGED <<v_pc, v_origin, v_result, s_vars, t_vars, r_vars>>

Verify ==
    /\ v_pc = "signed"
    /\ v_result' = verify(v_env)
    /\ v_pc' = "verified"
    /\ UNCHANGED <<v_origin, v_env, s_vars, t_vars, r_vars>>

VerifyNext ==
    \/ \E p \in Payloads, k \in SigningKeys : ToSigned(p, k)
    \/ \E sig \in SignatureBytes : TamperSignature(sig)
    \/ \E pk \in KeyBytes : TamperPublicKey(pk)
    \/ \E p \in Payloads : TamperPayload(p)
    \/ Verify

SpecVerify == Init /\ [][VerifyNext]_vars

-----------------------------------------------------------------------------
(* Concurrent submit_all_blocks invocations on clones of one client *)

\* a block with two rollup namespaces and a block that fails assembly
SubmitPool == {b \in BlockPool : b.block_hash \in {1, 3}}

SubmitNext ==
    \/ \E i \in Invocations :
           /\ s_pc[i] = "idle"
           /\ \E blocks \in SeqsUpTo(SubmitPool, MaxBlocks) :
                  \E orders \in OrdersFor(blocks) :
                      SubmitAllBlocksCall(i, blocks, SequencerKey, orders)
    \/ \E i \in Invocations, h \in Heights : TransportSubmitOk(i, h)
    \/ \E i \in Invocations : TransportSubmitErr(i)
    \/ \E i \in Invocations : SubmitAllBlocksReturn(i)

Next == SubmitNext

Spec == Init /\ [][Next]_vars

-----------------------------------------------------------------------------
(* One batch submitted, then read back: get_sequencer_namespace_data at a  *)
(* height, then reconstruction from one of the returned envelopes.         *)

Reverse(s) == [i \in 1..Len(s) |-> s[Len(s) + 1 - i]]

RoundTripNext ==
    \/ /\ s_pc[1] = "idle"
       /\ \E blocks \in Batches, k \in SigningKeys :
              \E orders \in OrdersFor(blocks) : SubmitAllBlocksCall(1, blocks, k, orders)
    \/ \E h \in Heights : TransportSubmitOk(1, h)
    \/ TransportSubmitErr(1)
    \/ SubmitAllBlocksReturn(1)
    \/ \E h \in Heights : s_pc[1] = "done" /\ GetSequencerNamespaceDataCall(h)
    \/ TransportGetAllOk(StoredBlobs(LastRequest))
    \/ TransportGetAllOk(Reverse(StoredBlobs(LastRequest)))
    \/ \E e \in TransportErrors : TransportGetAllErr(e)
    \/ GetSequencerNamespaceDataReturn
    \/ \E i \in 1..Len(r_envs) : r_pc = "have_envs" /\ ReconstructCall(r_height, r_envs[i])
    \/ ReconstructReturn

SpecRoundTrip == Init /\ [][RoundTripNext]_vars

-----------------------------------------------------------------------------
(* Reconstruction against arbitrary stored data: any envelope of EnvPool,  *)
(* any answer of the transport.                                            *)

OtherKeys == SigningKeys \ {SequencerKey}

Envelope(data, k) == to_signed(data, k).val

HonestEnvelope == Envelope(SequencerData(1, Header(1), AllNamespaces), SequencerKey)

EnvPool ==
    { HonestEnvelope,
      [HonestEnvelope EXCEPT !.public_key = MalformedKey],
      [HonestEnvelope EXCEPT !.signature = MalformedSignature],
      [HonestEnvelope EXCEPT !.signature = sign(SequencerKey, Sha256(Raw(1)))],
      Envelope(SequencerData(2, Header(2), <<1>>), SequencerKey),
      Envelope(SequencerData(1, Header(1), <<>>), SequencerKey),
      \* a block that carries a last commit
      Envelope([SequencerData(1, Header(2), <<2>>) EXCEPT !.last_commit = SomeCommit(1)],
               SequencerKey) }

BytesOf(e) == SignedNamespaceData_to_bytes(e).bytes

BlobContents(ns) ==
    LET good == Envelope(RollupData(1, TxsOf(ns, 1)), SequencerKey)
        alt == Envelope(RollupData(1, TxsOf(ns, 2)), SequencerKey)
    IN  { Raw(1),
          BytesOf(good),
          BytesOf(alt),
          \* another block's rollup data, signed by the sequencer
          BytesOf(Envelope(RollupData(2, TxsOf(ns, 2)), SequencerKey)),
          \* signature made over another payload
          BytesOf([good EXCEPT !.signature = alt.signature]),
          BytesOf([good EXCEPT !.signature = MalformedSignature]),
          \* sequencer's signature, another key embedded
          BytesOf([alt EXCEPT !.public_key = MalformedKey]),
          \* a sequencer envelope stored under a rollup namespace
          BytesOf(HonestEnvelope),
          \* a JSON document whose public_key is not base64
          [fmt |-> "json",
           doc |-> [BytesOf(good).doc EXCEPT !.public_key = [not_b64 |-> 1]]] }
        \cup
        \* consistently self-signed with another key
        {BytesOf(Envelope(RollupData(1, TxsOf(ns, 2)), k)) : k \in OtherKeys}

AdversaryBlobs == UNION {{Blob(ns, c) : c \in BlobContents(ns)} : ns \in RollupNamespaces}

FetchNext ==
    \/ \E h \in Heights, e \in EnvPool : r_pc = "idle" /\ ReconstructCall(h, e)
    \/ /\ r_pc = "fetch"
       /\ \E blobs \in SeqsUpTo(AdversaryBlobs, MaxBlobs) : TransportGetAllOk(blobs)
    \/ \E e \in TransportErrors : TransportGetAllErr(e)
    \/ ReconstructReturn

SpecFetch == Init /\ [][FetchNext]_vars

-----------------------------------------------------------------------------
(* get_sequencer_namespace_data against arbitrary data stored under the    *)
(* base namespace.                                                         *)

SequencerBlobContents ==
    {BytesOf(e) : e \in EnvPool}
        \cup
        { Raw(1),
          \* a rollup envelope stored under the base namespace
          BytesOf(Envelope(RollupData(1, TxsOf(1, 1)), SequencerKey)),
          \* a JSON document whose signature is not base64
          [fmt |-> "json",
           doc |-> [BytesOf(HonestEnvelope).doc EXCEPT !.signature = [not_b64 |-> 1]]] }

SequencerBlobs == {Blob(DEFAULT_NAMESPACE, c) : c \in SequencerBlobContents}

SequencerFetchNext ==
    \/ \E h \in Heights : GetSequencerNamespaceDataCall(h)
    \/ /\ r_pc = "seq_fetch"
       /\ \E blobs \in SeqsUpTo(SequencerBlobs, MaxBlobs) : TransportGetAllOk(blobs)
    \/ \E e \in TransportErrors : TransportGetAllErr(e)
    \/ GetSequencerNamespaceDataReturn

SpecSequencerFetch == Init /\ [][SequencerFetchNext]_vars

-----------------------------------------------------------------------------
(* Properties of SignedNamespaceData (SpecVerify) *)

SameExcept(e, f, field) ==
    /\ field = "data" \/ e.data = f.data
    /\ field = "public_key" \/ e.public_key = f.public_key
    /\ field = "signature" \/ e.signature = f.signature

\* C10: verify() succeeds on the envelope to_signed produced; it fails on
\* that envelope with only the signature bytes changed, and on that envelope
\* with only the payload changed.
EnvelopeAuthenticity ==
    v_pc = "verified" =>
        /\ v_env = v_origin => v_result = Ok
        /\ (v_env.signature # v_origin.signature /\ SameExcept(v_env, v_origin, "signature"))
               => ~v_result.ok
        /\ (v_env.data # v_origin.data /\ SameExcept(v_env, v_origin, "data"))
               => ~v_result.ok

\* a well-formed signature over the very payload, made by another key, was
\* put in place of the original and verify() refused it
EnvelopeAuthenticityWitness ==
    /\ v_pc = "verified"
    /\ SameExcept(v_env, v_origin, "signature")
    /\ v_env.signature # v_origin.signature
    /\ Signature_try_from(v_env.signature)
    /\ v_env.signature.msg = v_origin.signature.msg
    /\ v_result = Err("failed verifying signature")

\* the hash a signer of the payload d has to sign
PayloadHash(d) == Sha256([fmt |-> "json", doc |-> PayloadJson(d)])

\* C17: verify() fails with the malformed-key error whenever the public key
\* bytes are invalid, whatever the signature; with the malformed-signature
\* error when the key is valid and the signature bytes are invalid; with the
\* mismatch error when both are well formed and the signature is not one by
\* that key over the hash of the payload; it returns Ok only when the key
\* bytes, the signature bytes and the signature itself are good; and it
\* leaves the envelope as it was.
VerifyClassification ==
    [][v_pc' = "verified" =>
          LET key_ok == v_env.public_key.wf
              sig_ok == v_env.signature.wf
              hashable == PayloadSerializable(v_env.data)
              matches == /\ v_env.signature.signer = v_env.public_key.point
                         /\ v_env.signature.msg = PayloadHash(v_env.data)
          IN  /\ v_env' = v_env
              /\ v_origin' = v_origin
              /\ ~key_ok => v_result' = Err("failed deserializing public key from bytes")
              /\ (key_ok /\ ~sig_ok)
                     => v_result' = Err("failed deserializing signature from bytes")
              /\ (key_ok /\ sig_ok /\ hashable /\ ~matches)
                     => v_result' = Err("failed verifying signature")
              /\ v_result' = Ok <=> (key_ok /\ sig_ok /\ hashable /\ matches)]_vars

\* verify() was called on an envelope whose key bytes and signature bytes
\* are both malformed, and reported the key
VerifyClassificationWitness ==
    /\ v_pc = "verified"
    /\ ~v_env.public_key.wf
    /\ ~v_env.signature.wf
    /\ v_env.data = v_origin.data
    /\ v_result = Err("failed deserializing public key from bytes")

-----------------------------------------------------------------------------
(* Properties of submit_all_blocks (Spec) *)

NumRequests(i) == Cardinality({n \in 1..Len(rpc_log) : rpc_log[n].inv = i})

\* what a stored blob says about itself
BlobBlockHash(blob) == Base64Decode(blob.data.doc.data.block_hash)

Assembles(block) == block.header.serializable

AllFail(blocks) == \A j \in 1..Len(blocks) : ~Assembles(blocks[j])

\* C6: a block whose assembly fails has no blob in the submitted batch, a
\* block whose assembly succeeds has one blob per rollup namespace plus its
\* sequencer blob, and submit_all_blocks returns an error only when the
\* RPC failed.
PartialBatchResilience ==
    \A i \in Invocations :
        /\ s_pc[i] # "idle" =>
               LET req == rpc_log[PendingRequest(i)]
               IN  \A j \in 1..Len(s_blocks[i]) :
                       LET b == s_blocks[i][j]
                           copies == Cardinality({m \in 1..Len(s_blocks[i]) : s_blocks[i][m] = b})
                           mine == SelectSeq(req.blobs,
                                             LAMBDA x : BlobBlockHash(x) = b.block_hash)
                       IN  IF Assembles(b)
                           THEN /\ Len(mine) = copies * (Cardinality(DOMAIN b.rollup_txs) + 1)
                                /\ DOMAIN b.rollup_txs \cup {DEFAULT_NAMESPACE}
                                       = {mine[m].namespace_id : m \in 1..Len(mine)}
                           ELSE mine = <<>>
        /\ s_pc[i] = "done" => (s_result[i].kind = "err" <=> s_rsp[i].kind = "err")

\* a batch with a failing and a succeeding block went through without error
PartialBatchResilienceWitness ==
    \E i \in Invocations :
        /\ s_pc[i] = "done"
        /\ s_result[i].kind = "ok"
        /\ \E j \in 1..Len(s_blocks[i]) : ~Assembles(s_blocks[i][j])
        /\ \E j \in 1..Len(s_blocks[i]) : Assembles(s_blocks[i][j])
        /\ rpc_log[PendingRequest(i)].blobs # <<>>

\* block hash and namespace of every blob a batch is to carry: blocks in
\* input order, a block's rollup blobs in iteration order, then its
\* sequencer blob
ExpectedTags(blocks, orders) ==
    Concat([j \in 1..Len(blocks) |->
               IF Assembles(blocks[j])
               THEN [m \in 1..Len(orders[j]) + 1 |->
                        <<blocks[j].block_hash,
                          IF m <= Len(orders[j]) THEN orders[j][m] ELSE DEFAULT_NAMESPACE>>]
               ELSE <<>>])

\* C8: every invocation issues exactly one submit RPC; it carries the blobs
\* of the invocation's successfully assembled blocks, blocks in input order
\* and each block's blobs contiguous, and nothing else; it is issued with an
\* empty list when every block fails.
SingleSubmitCall ==
    \A i \in Invocations :
        /\ NumRequests(i) = IF s_pc[i] = "idle" THEN 0 ELSE 1
        /\ s_pc[i] # "idle" =>
               LET req == rpc_log[PendingRequest(i)]
               IN  /\ [n \in 1..Len(req.blobs) |->
                          <<BlobBlockHash(req.blobs[n]), req.blobs[n].namespace_id>>]
                          = ExpectedTags(s_blocks[i], s_order[i])
                   /\ AllFail(s_blocks[i]) => req.blobs = <<>>

\* two invocations in flight at once with different batches, one of them a
\* nonempty batch of which every block fails
SingleSubmitCallWitness ==
    \E i, k \in Invocations :
        /\ i # k
        /\ s_pc[i] = "rpc" /\ s_pc[k] = "rpc"
        /\ s_blocks[i] # <<>> /\ AllFail(s_blocks[i])
        /\ rpc_log[PendingRequest(i)].blobs = <<>>
        /\ Len(s_blocks[k]) = MaxBlocks /\ ~AllFail(s_blocks[k])
        /\ s_blocks[k][1] # s_blocks[k][MaxBlocks]

\* C9: a failed submit RPC makes submit_all_blocks return an error, with no
\* second RPC; a successful one makes it return the height the transport
\* reported.
SubmitOutcome ==
    \A i \in Invocations :
        /\ NumRequests(i) <= 1
        /\ s_pc[i] = "done" =>
               IF s_rsp[i].kind = "err"
               THEN s_result[i].kind = "err"
               ELSE s_result[i] = [kind |-> "ok", height |-> s_rsp[i].height]

\* one invocation returned an error, the other a height above the first
SubmitOutcomeWitness ==
    \E i, k \in Invocations :
        /\ s_pc[i] = "done" /\ s_rsp[i].kind = "err" /\ s_result[i].kind = "err"
        /\ s_pc[k] = "done" /\ s_result[k].kind = "ok" /\ s_result[k].height > 1
        /\ NumRequests(i) = 1

-----------------------------------------------------------------------------
(* Properties of reconstruction (SpecFetch, SpecRoundTrip) *)

\* the reconstruction call has returned after its fetch was answered
Reconstructed == r_pc = "done" /\ r_rsp # NoResult /\ r_env # NoEnvelope

Fetched == Reconstructed /\ r_rsp.kind = "ok"

\* what a retrieved blob is, judged without the reconstruction code
Parses(blob) == Rollup_from_bytes_ok(blob.data)

HashLinked(blob) == BlobBlockHash(blob) = r_env.data.block_hash

BlobTxs(blob) == blob.data.doc.data.rollup_txs

BlobSignature(blob) == Base64Decode(blob.data.doc.signature)

BlobPublicKey(blob) == Base64Decode(blob.data.doc.public_key)

\* the hash the signer of a rollup blob had to sign
BlobPayloadHash(blob) ==
    Sha256([fmt |-> "json",
            doc |-> [block_hash |-> blob.data.doc.data.block_hash,
                     rollup_txs |-> blob.data.doc.data.rollup_txs]])

SignedBy(blob, pk) ==
    /\ BlobSignature(blob).wf
    /\ BlobSignature(blob).signer = pk.point
    /\ BlobSignature(blob).msg = BlobPayloadHash(blob)

Good(blob) == Parses(blob) /\ HashLinked(blob) /\ SignedBy(blob, r_env.public_key)

BlobsIn(ns) == SelectSeq(r_rsp.blobs, LAMBDA b : b.namespace_id = ns)

ResultTxs == r_result.block.rollup_txs

\* C1: a block assembled and submitted alone at a height, read back at that
\* height through the envelope parsed from its base-namespace blob, is
\* returned as Ok(Some(b')) with b' equal to the block in block_hash, header,
\* last_commit and rollup_txs, whenever the fetch of the rollup namespaces
\* succeeds.
RoundTrip ==
    (/\ Fetched
     /\ s_pc[1] = "done" /\ s_rsp[1].kind = "ok" /\ s_rsp[1].height = r_height
     /\ Len(s_blocks[1]) = 1)
        => /\ r_result.kind = "ok_some"
           /\ r_result.block.block_hash = s_blocks[1][1].block_hash
           /\ r_result.block.header = s_blocks[1][1].header
           /\ r_result.block.last_commit = s_blocks[1][1].last_commit
           /\ DOMAIN ResultTxs = DOMAIN s_blocks[1][1].rollup_txs
           /\ \A ns \in DOMAIN ResultTxs : ResultTxs[ns] = s_blocks[1][1].rollup_txs[ns]

\* a block with two rollup namespaces made the round trip, its blobs
\* returned in the reverse of the order they were stored in
RoundTripWitness ==
    /\ Fetched
    /\ s_pc[1] = "done" /\ s_rsp[1].kind = "ok" /\ s_rsp[1].height = r_height
    /\ Len(s_blocks[1]) = 1
    /\ Cardinality(DOMAIN s_blocks[1][1].rollup_txs) = 2
    /\ Len(r_rsp.blobs) = 2
    /\ r_rsp.blobs[1].namespace_id = s_order[1][1][2]
    /\ r_result.kind = "ok_some"
    /\ r_result.block.rollup_txs = s_blocks[1][1].rollup_txs

\* C2: a namespace listed in the envelope for which a retrieved blob
\* deserializes, carries the envelope's block hash and verifies under the
\* envelope's key is in the reconstructed block with the transactions of
\* such a blob, whatever else was retrieved and in whatever order.
CompletenessGivenAvailability ==
    Fetched =>
        \A ns \in Range(r_env.data.rollup_namespaces) :
            (\E n \in 1..Len(r_rsp.blobs) :
                 r_rsp.blobs[n].namespace_id = ns /\ Good(r_rsp.blobs[n]))
                => /\ r_result.kind = "ok_some"
                   /\ ns \in DOMAIN ResultTxs
                   /\ \E n \in 1..Len(r_rsp.blobs) :
                          /\ r_rsp.blobs[n].namespace_id = ns
                          /\ Good(r_rsp.blobs[n])
                          /\ ResultTxs[ns] = BlobTxs(r_rsp.blobs[n])

\* the embedded public key of every deserializable blob replaced by pk
WithEmbeddedKey(blobs, pk) ==
    [n \in 1..Len(blobs) |->
        IF EnvelopeJsonValid(blobs[n].data)
        THEN [blobs[n] EXCEPT !.data.doc.public_key = Base64Encode(pk)]
        ELSE blobs[n]]

\* C3: every entry of a returned block is the transaction list of a
\* retrieved blob of that namespace whose signature verifies, over the hash
\* of its payload, under the sequencer envelope's public key; the key
\* embedded in the rollup envelopes has no influence on the result; a
\* namespace holding only blobs self-signed with another key has no entry.
TrustPlacement ==
    (Fetched /\ r_result.kind = "ok_some") =>
        /\ \A ns \in DOMAIN ResultTxs :
               \E n \in 1..Len(r_rsp.blobs) :
                   /\ r_rsp.blobs[n].namespace_id = ns
                   /\ Parses(r_rsp.blobs[n])
                   /\ SignedBy(r_rsp.blobs[n], r_env.public_key)
                   /\ ResultTxs[ns] = BlobTxs(r_rsp.blobs[n])
        /\ \A pk \in KeyBytes :
               ReconstructResult(r_env, [r_rsp EXCEPT !.blobs = WithEmbeddedKey(@, pk)])
                   = r_result
        /\ \A ns \in RollupNamespaces :
               (\A n \in 1..Len(r_rsp.blobs) :
                    (r_rsp.blobs[n].namespace_id = ns /\ Parses(r_rsp.blobs[n]))
                        => /\ BlobPublicKey(r_rsp.blobs[n]) # r_env.public_key
                           /\ SignedBy(r_rsp.blobs[n], BlobPublicKey(r_rsp.blobs[n])))
                   => ns \notin DOMAIN ResultTxs

SelfSigned(blob) ==
    /\ Parses(blob) /\ HashLinked(blob)
    /\ BlobPublicKey(blob).wf
    /\ BlobPublicKey(blob) # r_env.public_key
    /\ SignedBy(blob, BlobPublicKey(blob))

\* a blob with the envelope's block hash, self-signed with another key, was
\* retrieved last and left out, next to a namespace that was kept
TrustPlacementWitness ==
    /\ Fetched /\ r_result.kind = "ok_some"
    /\ Len(r_rsp.blobs) = 2
    /\ SelfSigned(r_rsp.blobs[2])
    /\ r_rsp.blobs[2].namespace_id \notin DOMAIN ResultTxs
    /\ r_rsp.blobs[1].namespace_id \in DOMAIN ResultTxs

\* C4: every entry of a returned block is the transaction list of a
\* retrieved blob of that namespace carrying the envelope's block hash; a
\* namespace whose deserializable blobs all carry another block hash has no
\* entry, also when they verify under the envelope's key.
HashLinkageRejection ==
    (Fetched /\ r_result.kind = "ok_some") =>
        /\ \A ns \in DOMAIN ResultTxs :
               \E n \in 1..Len(r_rsp.blobs) :
                   /\ r_rsp.blobs[n].namespace_id = ns
                   /\ Parses(r_rsp.blobs[n])
                   /\ HashLinked(r_rsp.blobs[n])
                   /\ ResultTxs[ns] = BlobTxs(r_rsp.blobs[n])
        /\ \A ns \in RollupNamespaces :
               (\A n \in 1..Len(r_rsp.blobs) :
                    (r_rsp.blobs[n].namespace_id = ns /\ Parses(r_rsp.blobs[n]))
                        => ~HashLinked(r_rsp.blobs[n]))
                   => ns \notin DOMAIN ResultTxs

\* a blob of another block, signed with the envelope's key, was retrieved
\* and left out
HashLinkageRejectionWitness ==
    /\ Fetched /\ r_result.kind = "ok_some"
    /\ \E n \in 1..Len(r_rsp.blobs) :
           /\ Parses(r_rsp.blobs[n])
           /\ ~HashLinked(r_rsp.blobs[n])
           /\ SignedBy(r_rsp.blobs[n], r_env.public_key)
           /\ r_rsp.blobs[n].namespace_id \notin DOMAIN ResultTxs
    /\ DOMAIN ResultTxs # {}

\* C5: a response holding blobs that do not deserialize still yields
\* Ok(Some(block)), and a namespace whose deserializable blobs all carry the
\* envelope's block hash and verify has its entry, with the transactions of
\* the last of them.
UnrelatedDataTolerance ==
    (Fetched /\ \E n \in 1..Len(r_rsp.blobs) : ~Parses(r_rsp.blobs[n])) =>
        /\ r_result.kind = "ok_some"
        /\ \A ns \in RollupNamespaces :
               LET parsed == SelectSeq(BlobsIn(ns), Parses)
               IN  (parsed # <<>> /\ \A n \in 1..Len(parsed) : Good(parsed[n]))
                       => /\ ns \in DOMAIN ResultTxs
                          /\ ResultTxs[ns] = BlobTxs(parsed[Len(parsed)])

\* a blob that does not deserialize was retrieved first, a good blob of
\* another namespace after it, and the good blob's entry is in the block
UnrelatedDataToleranceWitness ==
    /\ Fetched /\ r_result.kind = "ok_some"
    /\ Len(r_rsp.blobs) = 2
    /\ ~Parses(r_rsp.blobs[1])
    /\ Good(r_rsp.blobs[2])
    /\ r_rsp.blobs[1].namespace_id # r_rsp.blobs[2].namespace_id
    /\ DOMAIN ResultTxs = {r_rsp.blobs[2].namespace_id}

\* C7: a fetch failing with an RPC call error whose message contains
\* "blob: not found" yields Ok(None), a fetch failing otherwise yields an
\* error, and no failed fetch yields Ok(Some(_)).
AbsenceSignalling ==
    (Reconstructed /\ r_rsp.kind = "err") =>
        /\ r_result.kind # "ok_some"
        /\ IF r_rsp.error.variant = "rpc_call" /\ r_rsp.error.blob_not_found_in_message
           THEN r_result.kind = "ok_none"
           ELSE r_result.kind = "err"

\* the message was found in an error that is no RPC call error, and the
\* call failed
AbsenceSignallingWitness ==
    /\ Reconstructed /\ r_rsp.kind = "err"
    /\ r_rsp.error.variant # "rpc_call" /\ r_rsp.error.blob_not_found_in_message
    /\ r_result.kind = "err"

-----------------------------------------------------------------------------
(* Properties of assemble_blobs_from_sequencer_block_data (Spec) *)

\* the blobs an invocation handed to the transport
RequestBlobs(i) == rpc_log[PendingRequest(i)].blobs

\* C11: two calls of assemble_blobs_from_sequencer_block_data on equal blocks
\* with the same signing key return the same list of blobs, in length, in the
\* namespace and in the payload at every position.
DeterministicAssembly ==
    \A i, k \in Invocations :
        (/\ s_pc[i] # "idle" /\ s_pc[k] # "idle"
         /\ Len(s_blocks[i]) = 1
         /\ s_blocks[i] = s_blocks[k]
         /\ s_key[i] = s_key[k])
            => RequestBlobs(i) = RequestBlobs(k)

\* C13: for a block with n rollup namespaces a successful assembly returns
\* n + 1 blobs; the first n are one per namespace of the mapping, each tagged
\* with its namespace and carrying the block's hash and that namespace's
\* transactions in their order; the last is tagged DEFAULT_NAMESPACE and
\* lists the namespaces of the first n blobs in the same order.
AssemblyShape ==
    \A i \in Invocations :
        (s_pc[i] # "idle" /\ Len(s_blocks[i]) = 1 /\ Assembles(s_blocks[i][1])) =>
            LET b == s_blocks[i][1]
                blobs == RequestBlobs(i)
                n == Cardinality(DOMAIN b.rollup_txs)
            IN  /\ Len(blobs) = n + 1
                /\ {blobs[m].namespace_id : m \in 1..n} = DOMAIN b.rollup_txs
                /\ \A m \in 1..n :
                       /\ Parses(blobs[m])
                       /\ BlobBlockHash(blobs[m]) = b.block_hash
                       /\ BlobTxs(blobs[m]) = b.rollup_txs[blobs[m].namespace_id]
                /\ blobs[n + 1].namespace_id = DEFAULT_NAMESPACE
                /\ Sequencer_from_bytes_ok(blobs[n + 1].data)
                /\ BlobBlockHash(blobs[n + 1]) = b.block_hash
                /\ blobs[n + 1].data.doc.data.rollup_namespaces
                       = [m \in 1..n |-> blobs[m].namespace_id]

\* a block with two rollup namespaces was assembled with the larger namespace
\* iterated first, into three blobs
AssemblyShapeWitness ==
    \E i \in Invocations :
        /\ s_pc[i] # "idle" /\ Len(s_blocks[i]) = 1 /\ Assembles(s_blocks[i][1])
        /\ Len(RequestBlobs(i)) = 3
        /\ RequestBlobs(i)[1].namespace_id > RequestBlobs(i)[2].namespace_id
        /\ RequestBlobs(i)[3].namespace_id = DEFAULT_NAMESPACE
        /\ BlobTxs(RequestBlobs(i)[1])
               = s_blocks[i][1].rollup_txs[RequestBlobs(i)[1].namespace_id]

-----------------------------------------------------------------------------
(* Further properties of reconstruction (SpecFetch) *)

\* C12: when the fetch succeeds and no retrieved blob deserializes, carries
\* the envelope's block hash and verifies under the envelope's key (a
\* response without blobs included), the call returns Ok(Some(block)) with
\* an empty rollup_txs mapping, never Ok(None) and never an error.
NoMinimumCompleteness ==
    (Fetched /\ \A n \in 1..Len(r_rsp.blobs) : ~Good(r_rsp.blobs[n])) =>
        /\ r_result.kind = "ok_some"
        /\ DOMAIN ResultTxs = {}

\* two blobs that deserialize were retrieved, one of another block and one
\* with a signature that does not verify, and a block without rollup
\* transactions was returned
NoMinimumCompletenessWitness ==
    /\ Fetched
    /\ Len(r_rsp.blobs) = 2
    /\ Parses(r_rsp.blobs[1]) /\ ~HashLinked(r_rsp.blobs[1])
    /\ Parses(r_rsp.blobs[2]) /\ HashLinked(r_rsp.blobs[2])
    /\ ~SignedBy(r_rsp.blobs[2], r_env.public_key)
    /\ r_result.kind = "ok_some"
    /\ DOMAIN ResultTxs = {}

-----------------------------------------------------------------------------
(* Properties of get_sequencer_namespace_data (SpecSequencerFetch) *)

\* get_sequencer_namespace_data has returned
SequencerFetched == r_pc \in {"have_envs", "done"} /\ r_env = NoEnvelope /\ r_rsp # NoResult

ParsesAsSequencer(blob) == Sequencer_from_bytes_ok(blob.data)

\* C14: when the base-namespace fetch succeeds, get_sequencer_namespace_data
\* returns Ok with, in the transport's order, exactly the envelopes of the
\* blobs that deserialize as a signed SequencerNamespaceData: payload, key
\* bytes and signature bytes as stored; blobs that do not deserialize are
\* left out and the signatures are not checked.
SequencerFetchOnlyParses ==
    (SequencerFetched /\ r_rsp.kind = "ok") =>
        LET parsed == SelectSeq(r_rsp.blobs, ParsesAsSequencer)
        IN  /\ r_result.kind = "ok"
            /\ Len(r_result.envelopes) = Len(parsed)
            /\ \A m \in 1..Len(parsed) :
                   LET e == r_result.envelopes[m]
                       j == parsed[m].data.doc
                   IN  /\ e.public_key = BlobPublicKey(parsed[m])
                       /\ e.signature = BlobSignature(parsed[m])
                       /\ e.data.block_hash = BlobBlockHash(parsed[m])
                       /\ e.data.header = j.data.header
                       /\ e.data.last_commit = j.data.last_commit
                       /\ e.data.rollup_namespaces = j.data.rollup_namespaces

\* a blob that does not deserialize came first and was left out; the
\* envelope after it was returned although its key bytes are malformed
SequencerFetchOnlyParsesWitness ==
    /\ SequencerFetched /\ r_rsp.kind = "ok"
    /\ Len(r_rsp.blobs) = 2
    /\ ~ParsesAsSequencer(r_rsp.blobs[1])
    /\ ParsesAsSequencer(r_rsp.blobs[2])
    /\ r_result.kind = "ok"
    /\ Len(r_result.envelopes) = 1
    /\ ~VerificationKey_try_from(r_result.envelopes[1].public_key)
    /\ verify(r_result.envelopes[1]) = Err("failed deserializing public key from bytes")

\* C15: a reconstruction call on an envelope whose public_key bytes are no
\* verification key returns an error and hands no request to the transport;
\* a call on an envelope with a valid key hands it exactly one blob_get_all
\* request, for the given height and the envelope's rollup_namespaces, and
\* no other request up to and after its return.
KeyCheckPrecedesFetch ==
    (r_pc # "idle" /\ r_env # NoEnvelope) =>
        IF VerificationKey_try_from(r_env.public_key)
        THEN fetch_log = <<GetAllRequest(r_height, r_env.data.rollup_namespaces)>>
        ELSE /\ fetch_log = <<>>
             /\ r_pc = "done"
             /\ r_result = [kind |-> "err",
                            msg |-> "failed constructing verification key from stored bytes"]

\* a call on an envelope with malformed key bytes, its payload and signature
\* bytes in order, has returned its error with nothing fetched
KeyCheckPrecedesFetchWitness ==
    /\ r_pc = "done" /\ r_env # NoEnvelope
    /\ ~VerificationKey_try_from(r_env.public_key)
    /\ Signature_try_from(r_env.signature)
    /\ r_env.data.rollup_namespaces # <<>>
    /\ r_result.kind = "err"
    /\ fetch_log = <<>>

\* C16: a reconstruction call on a sequencer envelope whose public key bytes
\* or whose signature bytes are malformed returns an error, never
\* Ok(Some(block)) and never Ok(None).
MalformedTrustAnchorFatal ==
    (/\ r_pc = "done" /\ r_env # NoEnvelope
     /\ \/ ~VerificationKey_try_from(r_env.public_key)
        \/ ~Signature_try_from(r_env.signature))
        => r_result.kind = "err"

\* C18: whenever the call returns Ok(Some(block)), block.block_hash,
\* block.header and block.last_commit are those of the sequencer envelope
\* passed to the call, whatever blobs were retrieved, and no step of the
\* call changes the envelope.
HeaderBinding ==
    [][/\ r_pc # "idle" => r_env' = r_env
       /\ r_result'.kind = "ok_some" =>
              /\ r_result'.block.block_hash = r_env.data.block_hash
              /\ r_result'.block.header = r_env.data.header
              /\ r_result'.block.last_commit = r_env.data.last_commit]_vars

\* a block was returned for an envelope with a last commit while a signed
\* blob of another block was among those retrieved
HeaderBindingWitness ==
    /\ Fetched /\ r_result.kind = "ok_some"
    /\ r_env.data.last_commit.some
    /\ \E n \in 1..Len(r_rsp.blobs) :
           /\ Parses(r_rsp.blobs[n])
           /\ ~HashLinked(r_rsp.blobs[n])
           /\ SignedBy(r_rsp.blobs[n], r_env.public_key)
    /\ r_result.block.block_hash = r_env.data.block_hash
    /\ r_result.block.header = r_env.data.header
    /\ r_result.block.last_commit = r_env.data.last_commit

\* signature bytes an envelope with the payload of e may carry: malformed,
\* made over another message, or made over its payload by the sequencer
EnvelopeSignatures(e) ==
    {MalformedSignature,
     sign(SequencerKey, Sha256(Raw(1))),
     sign(SequencerKey, PayloadHash(e.data))}

\* C19: the result of a reconstruction call does not depend on the signature
\* bytes of the sequencer envelope: a call on the envelope with any other
\* signature bytes, given the same answer of the transport, returns the
\* same result.
SignatureIndependence ==
    (r_pc = "done" /\ r_env # NoEnvelope) =>
        \A sig \in EnvelopeSignatures(r_env) \ {r_env.signature} :
            LET other == [r_env EXCEPT !.signature = sig]
            IN  IF VerificationKey_try_from(other.public_key)
                THEN ReconstructResult(other, r_rsp) = r_result
                ELSE r_result = [kind |-> "err",
                                 msg |-> "failed constructing verification key from stored bytes"]

\* a block with rollup transactions was returned for an envelope whose
\* signature was made over another message, which verify() refuses
SignatureIndependenceWitness ==
    /\ Fetched /\ r_result.kind = "ok_some"
    /\ DOMAIN ResultTxs # {}
    /\ Signature_try_from(r_env.signature)
    /\ verify(r_env) = Err("failed verifying signature")
    /\ \E sig \in EnvelopeSignatures(r_env) : verify([r_env EXCEPT !.signature = sig]) = Ok

\* every retrieved blob is of a namespace the call asked for
OnlyRequestedNamespaces ==
    \A n \in 1..Len(r_rsp.blobs) :
        r_rsp.blobs[n].namespace_id \in Range(r_env.data.rollup_namespaces)

\* C20: when the transport returns only blobs of the requested namespaces,
\* every key of a returned block is one of the envelope's rollup_namespaces
\* and maps to the transaction list of one retrieved blob of that namespace.
NamespaceConfinement ==
    (Fetched /\ r_result.kind = "ok_some" /\ OnlyRequestedNamespaces) =>
        \A ns \in DOMAIN ResultTxs :
            /\ ns \in Range(r_env.data.rollup_namespaces)
            /\ \E n \in 1..Len(r_rsp.blobs) :
                   /\ r_rsp.blobs[n].namespace_id = ns
                   /\ Parses(r_rsp.blobs[n])
                   /\ ResultTxs[ns] = BlobTxs(r_rsp.blobs[n])

\* an envelope listing one of the rollup namespaces; two good blobs of that
\* namespace with different transaction lists were retrieved and the entry
\* is the list of one of them
NamespaceConfinementWitness ==
    /\ Fetched /\ r_result.kind = "ok_some" /\ OnlyRequestedNamespaces
    /\ Len(r_env.data.rollup_namespaces) = 1
    /\ Len(r_rsp.blobs) = 2
    /\ Good(r_rsp.blobs[1]) /\ Good(r_rsp.blobs[2])
    /\ BlobTxs(r_rsp.blobs[1]) # BlobTxs(r_rsp.blobs[2])
    /\ DOMAIN ResultTxs = Range(r_env.data.rollup_namespaces)
    /\ \A ns \in DOMAIN ResultTxs : ResultTxs[ns] = BlobTxs(r_rsp.blobs[2])

====
